---- MODULE Spec2Model ----
(***************************************************************************)
(* base-x: conversion between byte sequences and text in an arbitrary      *)
(* radix.  The model covers the fixed-capacity big integer                 *)
(* (bigintstatic.rs), the decoders (decoder.rs) and the alphabet           *)
(* dispatch (alphabet.rs).                                                 *)
(*                                                                         *)
(* Representation of machine integers.  TLC's integers are 32-bit signed,  *)
(* so a u32 or u64 value is a "wide" number: the sequence of its bytes,    *)
(* least-significant byte first, without high zero bytes (0 is << >>,      *)
(* 0xDEAD is <<173, 222>>).  The representation is canonical, so equality  *)
(* of wide numbers is equality of values.  usize values that stay small    *)
(* (lengths, indices, counts) are TLC integers.                            *)
(*                                                                         *)
(* An intermediate result that is used more than once is the parameter of  *)
(* a local operator applied to it (LET step(r) == ... IN step(f(x))), so   *)
(* that it is written, and evaluated, once.                                *)
(***************************************************************************)
EXTENDS Integers, Sequences, FiniteSets, TLC

Byte == 0..255

Min(a, b) == IF a < b THEN a ELSE b

\* The canonical form of a little-endian byte sequence: high zero bytes removed.
RECURSIVE Trim(_)
Trim(w) ==
  IF w = <<>> THEN <<>>
  ELSE IF w[Len(w)] = 0 THEN Trim(SubSeq(w, 1, Len(w) - 1))
  ELSE w

ByteAt(w, i) == IF i <= Len(w) THEN w[i] ELSE 0

\* A small non-negative integer as a wide number.
RECURSIVE ToWide(_)
ToWide(n) == IF n = 0 THEN <<>> ELSE <<n % 256>> \o ToWide(n \div 256)

\* A wide number below 2^23 as an integer.
RECURSIVE ToInt(_)
ToInt(w) == IF w = <<>> THEN 0 ELSE w[1] + 256 * ToInt(Tail(w))

RECURSIVE AddRaw(_, _, _, _)
AddRaw(a, b, i, c) ==
  IF i > Len(a) /\ i > Len(b)
  THEN (IF c = 0 THEN <<>> ELSE <<c>>)
  ELSE LET s == ByteAt(a, i) + ByteAt(b, i) + c
       IN  <<s % 256>> \o AddRaw(a, b, i + 1, s \div 256)

\* a + b, exact.
WAdd(a, b) == Trim(AddRaw(a, b, 1, 0))

RECURSIVE MulByteRaw(_, _, _, _)
MulByteRaw(a, k, i, c) ==
  IF i > Len(a)
  THEN (IF c = 0 THEN <<>> ELSE <<c>>)
  ELSE LET s == a[i] * k + c
       IN  <<s % 256>> \o MulByteRaw(a, k, i + 1, s \div 256)

\* a * k for one byte k, exact.
WMulByte(a, k) == Trim(MulByteRaw(a, k, 1, 0))

RECURSIVE MulRaw(_, _, _)
MulRaw(a, b, j) ==
  IF j > Len(b) THEN <<>>
  ELSE WAdd(WMulByte(a, b[j]), Trim(<<0>> \o MulRaw(a, b, j + 1)))

\* a * b, exact.
WMul(a, b) == MulRaw(a, b, 1)

RECURSIVE LessFrom(_, _, _)
LessFrom(a, b, i) ==
  IF i = 0 THEN FALSE
  ELSE IF a[i] # b[i] THEN a[i] < b[i]
  ELSE LessFrom(a, b, i - 1)

\* a < b, for canonical a and b.
WLess(a, b) ==
  IF Len(a) # Len(b) THEN Len(a) < Len(b) ELSE LessFrom(a, b, Len(a))

WLeq(a, b) == ~WLess(b, a)

RECURSIVE SubRaw(_, _, _, _)
SubRaw(a, b, i, brw) ==
  IF i > Len(a) THEN <<>>
  ELSE LET s == a[i] - ByteAt(b, i) - brw
       IN  IF s < 0 THEN <<s + 256>> \o SubRaw(a, b, i + 1, 1)
           ELSE <<s>> \o SubRaw(a, b, i + 1, 0)

\* a - b, for b <= a.
WSub(a, b) == Trim(SubRaw(a, b, 1, 0))

\* The largest q in 0..255 with q*d <= r, found bit by bit from k = 128,
\* together with r - q*d.
RECURSIVE QuotByte(_, _, _, _)
QuotByte(r, d, k, q) ==
  IF k = 0 THEN [q |-> q, r |-> r]
  ELSE LET try(kd) ==
             IF WLeq(kd, r) THEN QuotByte(WSub(r, kd), d, k \div 2, q + k)
             ELSE QuotByte(r, d, k \div 2, q)
       IN  try(WMulByte(d, k))

\* Long division of a by d # 0 from a's byte i downwards, with running
\* remainder r: the quotient's bytes (least-significant first) and the
\* remainder.
RECURSIVE DivRaw(_, _, _, _)
DivRaw(a, d, i, r) ==
  IF i = 0 THEN [q |-> <<>>, r |-> r]
  ELSE LET digit(step) ==
             LET lower(rest) == [q |-> rest.q \o <<step.q>>, r |-> rest.r]
             IN  lower(DivRaw(a, d, i - 1, step.r))
       IN  digit(QuotByte(Trim(<<a[i]>> \o r), d, 128, 0))

\* floor(a / d) and a mod d, for d # 0.
WDiv(a, d) == Trim(DivRaw(a, d, Len(a), <<>>).q)
WMod(a, d) == DivRaw(a, d, Len(a), <<>>).r

\* Bitwise or of two bytes.
RECURSIVE BitOr(_, _, _)
BitOr(x, y, k) ==
  IF k = 0 THEN 0
  ELSE (IF x % 2 = 1 \/ y % 2 = 1 THEN 1 ELSE 0)
       + 2 * BitOr(x \div 2, y \div 2, k - 1)

(***************************************************************************)
(* u32 and u64 arithmetic as the code uses it.                             *)
(***************************************************************************)

\* The bytes of a u32 and of a u64.
U32Bytes == 4
U64Bytes == 8

\* `x as u32`: the low 32 bits.
as_u32(w) == Trim(SubSeq(w, 1, Min(U32Bytes, Len(w))))

\* A u64 result: the low 64 bits of the exact value.
wrap_u64(w) == Trim(SubSeq(w, 1, Min(U64Bytes, Len(w))))

\* Whether the exact value does not fit a u64.
overflows_u64(w) == Len(w) > U64Bytes

\* `x >> 32` on a u64.
shr32(w) == IF Len(w) <= U32Bytes THEN <<>> ELSE SubSeq(w, U32Bytes + 1, Len(w))

\* `x << 32`, exact (the caller wraps it to 64 bits).
shl32(w) == IF w = <<>> THEN <<>> ELSE [i \in 1..U32Bytes |-> 0] \o w

\* `x | y` on u64 values.
bitor(a, b) ==
  Trim([i \in 1..(IF Len(a) < Len(b) THEN Len(b) ELSE Len(a)) |->
          BitOr(ByteAt(a, i), ByteAt(b, i), 8)])

\* u32::to_be followed by a read of the chunk's memory: the four bytes of a
\* chunk, most-significant first.
to_be_bytes(chunk) == [i \in 1..U32Bytes |-> ByteAt(chunk, U32Bytes + 1 - i)]

\* chunk.leading_zeros() / 8 for a non-zero chunk (and 4 for a zero chunk).
leading_zero_bytes(chunk) == U32Bytes - Len(chunk)

(***************************************************************************)
(* BigUintStatic<N> (bigintstatic.rs): `chunks` is the array [u32; N],     *)
(* most-significant chunk first, and `len` the field the overflow path of  *)
(* mul_add counts in.  N is Len(chunks).                                   *)
(***************************************************************************)

\* BigUintStatic::<N>::default()
BigUintStatic_default(N) == [chunks |-> [i \in 1..N |-> <<>>], len |-> 0]

\* The integer a chunk array represents: sum of chunks[i] * 2^(32*(N-i)).
RECURSIVE ChunksValue(_)
ChunksValue(chunks) ==
  IF chunks = <<>> THEN <<>>
  ELSE WAdd(chunks[Len(chunks)],
            shl32(ChunksValue(SubSeq(chunks, 1, Len(chunks) - 1))))

\* div_mod_loop without `carry %= divider`: the dividend, not the remainder,
\* is carried into the next chunk.
RECURSIVE div_mod_loop_unreduced(_, _, _, _)
div_mod_loop_unreduced(chunks, divider, i, carry) ==
  IF i > Len(chunks) THEN [chunks |-> <<>>, carry |-> carry, ovf |-> FALSE]
  ELSE LET divide(shifted, c1) ==
             LET store(chunk, rest) ==
                   [chunks |-> <<chunk>> \o rest.chunks,
                    carry  |-> rest.carry,
                    ovf    |-> overflows_u64(shifted) \/ rest.ovf]
             IN  store(as_u32(WDiv(c1, divider)),
                       div_mod_loop_unreduced(chunks, divider, i + 1, c1))
           shift(shifted) ==
             divide(shifted, bitor(wrap_u64(shifted), chunks[i]))
       IN  shift(shl32(carry))

\* The loop of div_mod from chunk i on, with the running remainder `carry`:
\* the new chunks i.., the final carry, and whether `carry << 32` lost bits.
RECURSIVE div_mod_loop(_, _, _, _)
div_mod_loop(chunks, divider, i, carry) ==
  IF i > Len(chunks) THEN [chunks |-> <<>>, carry |-> carry, ovf |-> FALSE]
  ELSE LET divide(shifted, c1) ==
             LET store(chunk, rest) ==
                   [chunks |-> <<chunk>> \o rest.chunks,
                    carry  |-> rest.carry,
                    ovf    |-> overflows_u64(shifted) \/ rest.ovf]
             IN  store(as_u32(WDiv(c1, divider)),
                       div_mod_loop(chunks, divider, i + 1, WMod(c1, divider)))
           shift(shifted) ==
             divide(shifted, bitor(wrap_u64(shifted), chunks[i]))
       IN  shift(shl32(carry))

\* div_mod(&mut self, divider): a division by zero panics, which happens at
\* the first chunk (an empty array is never divided).
div_mod(self, divider) ==
  IF divider = <<>> /\ self.chunks # <<>>
  THEN [self |-> self, ret |-> "panic", rem |-> <<>>, ovf |-> FALSE]
  ELSE LET divided(r) ==
             [self |-> [self EXCEPT !.chunks = r.chunks],
              ret  |-> "Ok",
              rem  |-> as_u32(r.carry),
              ovf  |-> r.ovf]
       IN  divided(div_mod_loop(self.chunks, divider, 1, <<>>))

\* The second loop of mul_add, from chunk i down to the first, with the
\* incoming carry.
RECURSIVE mul_add_loop(_, _, _, _)
mul_add_loop(chunks, multiplicator, i, carry) ==
  IF i = 0 THEN [chunks |-> <<>>, carry |-> carry, ovf |-> FALSE]
  ELSE LET multiply(exact) ==
             LET store(c1, rest) ==
                   [chunks |-> rest.chunks \o <<as_u32(c1)>>,
                    carry  |-> rest.carry,
                    ovf    |-> overflows_u64(exact) \/ rest.ovf]
             IN  store(wrap_u64(exact),
                       mul_add_loop(chunks, multiplicator, i - 1,
                                    shr32(wrap_u64(exact))))
       IN  multiply(WAdd(carry, WMul(chunks[i], multiplicator)))

\* mul_add_sweep without the first `carry >>= 32`: the whole product of the
\* least-significant chunk is carried into the next one.
mul_add_sweep_unshifted(chunks, multiplicator, addition) ==
  IF chunks = <<>> THEN [chunks |-> <<>>, carry |-> <<>>, ovf |-> FALSE]
  ELSE LET multiply(exact) ==
             LET store(c1, rest) ==
                   [chunks |-> rest.chunks \o <<as_u32(c1)>>,
                    carry  |-> rest.carry,
                    ovf    |-> overflows_u64(exact) \/ rest.ovf]
             IN  store(wrap_u64(exact),
                       mul_add_loop(chunks, multiplicator, Len(chunks) - 1,
                                    wrap_u64(exact)))
       IN  multiply(WAdd(WMul(chunks[Len(chunks)], multiplicator), addition))

\* The sweep of mul_add over the chunks, least-significant chunk first: the
\* addition enters the first multiplication only.
mul_add_sweep(chunks, multiplicator, addition) ==
  IF chunks = <<>> THEN [chunks |-> <<>>, carry |-> <<>>, ovf |-> FALSE]
  ELSE LET multiply(exact) ==
             LET store(c1, rest) ==
                   [chunks |-> rest.chunks \o <<as_u32(c1)>>,
                    carry  |-> rest.carry,
                    ovf    |-> overflows_u64(exact) \/ rest.ovf]
             IN  store(wrap_u64(exact),
                       mul_add_loop(chunks, multiplicator, Len(chunks) - 1,
                                    shr32(wrap_u64(exact))))
       IN  multiply(WAdd(WMul(chunks[Len(chunks)], multiplicator), addition))

\* What mul_add does with a carry left after the most-significant chunk:
\* len is counted up, and unless len exceeds N the carry is stored into
\* chunks[0] (`for x in self.len..0` is an empty range).
mul_add_carry(chunks, len, carry) ==
  IF carry = <<>>
  THEN [self |-> [chunks |-> chunks, len |-> len], ret |-> "Ok"]
  ELSE IF len + 1 > Len(chunks)
  THEN [self |-> [chunks |-> chunks, len |-> len + 1], ret |-> "Err"]
  ELSE [self |-> [chunks |-> [chunks EXCEPT ![1] = as_u32(carry)],
                  len    |-> len + 1],
        ret  |-> "Ok"]

\* mul_add(&mut self, multiplicator, addition) -> Result<(), BigUintErr>
mul_add(self, multiplicator, addition) ==
  LET swept(s) ==
        LET stored(r) == [self |-> r.self, ret |-> r.ret, ovf |-> s.ovf]
        IN  stored(mul_add_carry(s.chunks, self.len, s.carry))
  IN  swept(mul_add_sweep(self.chunks, multiplicator, addition))

\* is_zero(&self)
is_zero(self) == \A i \in 1..Len(self.chunks) : self.chunks[i] = <<>>

\* The first loop of into_bytes_be: four for every leading zero chunk, then
\* the leading zero bytes of the first non-zero chunk.
RECURSIVE skip_from(_, _)
skip_from(chunks, i) ==
  IF i > Len(chunks) THEN 0
  ELSE IF chunks[i] # <<>> THEN leading_zero_bytes(chunks[i])
  ELSE U32Bytes + skip_from(chunks, i + 1)

\* The memory of the chunk array after every chunk went through u32::to_be.
RECURSIVE chunk_memory(_)
chunk_memory(chunks) ==
  IF chunks = <<>> THEN <<>>
  ELSE to_be_bytes(Head(chunks)) \o chunk_memory(Tail(chunks))

\* into_bytes_be with the copy before the test of output.len(): as much of
\* the value as fits is written even when the result is Err.
into_bytes_be_eager(self, output) ==
  LET skip == skip_from(self.chunks, 1)
      len  == Len(self.chunks) * U32Bytes - skip
      mem  == chunk_memory(self.chunks)
  IN  IF len = 0 THEN [ret |-> "Ok", output |-> output]
      ELSE [ret    |-> IF Len(output) < len THEN "Err" ELSE "Ok",
            output |-> SubSeq(mem, skip + 1, skip + Min(len, Len(output)))
                         \o SubSeq(output, len + 1, Len(output))]

\* into_bytes_be(self, output) -> Result<(), (usize, usize)>: the result and
\* the output buffer afterwards.  `len` bytes of the chunk memory from offset
\* `skip` are copied to the front of output.
into_bytes_be(self, output) ==
  LET skip == skip_from(self.chunks, 1)
      len  == Len(self.chunks) * U32Bytes - skip
      mem  == chunk_memory(self.chunks)
  IN  IF len = 0 THEN [ret |-> "Ok", output |-> output]
      ELSE IF Len(output) < len THEN [ret |-> "Err", output |-> output]
      ELSE [ret    |-> "Ok",
            output |-> SubSeq(mem, skip + 1, skip + len)
                         \o SubSeq(output, len + 1, Len(output))]

(***************************************************************************)
(* Strings.  A &str is the sequence of its Unicode scalar values; its      *)
(* bytes are their UTF-8 encodings.  A &[u8] is a sequence of bytes.       *)
(***************************************************************************)

\* The UTF-8 encoding of one scalar value.
utf8(c) ==
  IF c < 128 THEN <<c>>
  ELSE IF c < 2048 THEN <<192 + (c \div 64), 128 + (c % 64)>>
  ELSE IF c < 65536
  THEN <<224 + (c \div 4096), 128 + ((c \div 64) % 64), 128 + (c % 64)>>
  ELSE <<240 + (c \div 262144), 128 + ((c \div 4096) % 64),
         128 + ((c \div 64) % 64), 128 + (c % 64)>>

\* str::as_bytes / str::bytes
RECURSIVE as_bytes(_)
as_bytes(s) == IF s = <<>> THEN <<>> ELSE utf8(Head(s)) \o as_bytes(Tail(s))

\* str::chars
chars(s) == s

\* The length of the UTF-8 sequence a lead byte starts.
utf8_width(b) == IF b < 128 THEN 1 ELSE IF b < 224 THEN 2 ELSE IF b < 240 THEN 3 ELSE 4

\* String::from_utf8_unchecked on well-formed UTF-8: the scalar values.
RECURSIVE from_utf8_unchecked(_)
from_utf8_unchecked(b) ==
  IF b = <<>> THEN <<>>
  ELSE LET w == Min(utf8_width(b[1]), Len(b))
           lead == IF w = 1 THEN b[1]
                   ELSE IF w = 2 THEN b[1] - 192
                   ELSE IF w = 3 THEN b[1] - 224
                   ELSE b[1] - 240
           c == IF w = 1 THEN lead
                ELSE IF w = 2 THEN lead * 64 + (b[2] - 128)
                ELSE IF w = 3 THEN lead * 4096 + (b[2] - 128) * 64 + (b[3] - 128)
                ELSE lead * 262144 + (b[2] - 128) * 4096
                     + (b[3] - 128) * 64 + (b[4] - 128)
       IN  <<c>> \o from_utf8_unchecked(SubSeq(b, w + 1, Len(b)))

\* is_ascii of a &str (scalar values) or a &[u8] (bytes).
is_ascii(s) == \A i \in 1..Len(s) : s[i] < 128

Reverse(s) == [i \in 1..Len(s) |-> s[Len(s) + 1 - i]]

Zeros(n) == [i \in 1..n |-> 0]

\* slice::rotate_left(mid), for mid <= len.
rotate_left(s, mid) == SubSeq(s, mid + 1, Len(s)) \o SubSeq(s, 1, mid)

(***************************************************************************)
(* BigUintStatic::from_bytes_be, the import from big-endian bytes.         *)
(***************************************************************************)

\* u32::from_be of a chunk read from four bytes of memory.
from_be(memory) == Trim(Reverse(memory))

\* `chunks_ptr.offset(4 - modulo)`: where the copy of from_bytes_be starts.
from_bytes_be_offset(bytes) ==
  IF Len(bytes) % U32Bytes > 0 THEN U32Bytes - (Len(bytes) % U32Bytes) ELSE 0

\* The memory from the first byte of `chunks` on after the unsafe block of
\* from_bytes_be: the zeroed array with the bytes copied to the offset.  It
\* is longer than the array when the copy (or the write to chunk 0 of an
\* empty array) runs past the array's end.
from_bytes_be_memory(N, bytes) ==
  LET end == from_bytes_be_offset(bytes) + Len(bytes)
  IN  [i \in 1..(IF end > N * U32Bytes THEN end ELSE N * U32Bytes) |->
         IF i > from_bytes_be_offset(bytes) /\ i <= end
         THEN bytes[i - from_bytes_be_offset(bytes)] ELSE 0]

\* BigUintStatic::<N>::from_bytes_be(bytes): the outcomes.  `outside` is the
\* number of bytes written past the end of the array; such a write is
\* undefined behaviour, after which the call returns Ok with what the array
\* holds or the process is aborted.  The test of bytes.len() against len * 4
\* is the code's; len is bytes.len() / 4 rounded up, so it never holds.
from_bytes_be(N, bytes) ==
  LET len == (Len(bytes) \div U32Bytes)
               + (IF Len(bytes) % U32Bytes > 0 THEN 1 ELSE 0)
      built(memory) ==
        LET ok == [ret     |-> "Ok",
                   self    |-> [chunks |-> [i \in 1..N |->
                                  from_be(SubSeq(memory, U32Bytes * (i - 1) + 1,
                                                 U32Bytes * i))],
                                len    |-> 0],
                   outside |-> Len(memory) - N * U32Bytes]
        IN  IF Len(memory) = N * U32Bytes THEN {ok}
            ELSE {ok, [ret     |-> "abort",
                       self    |-> BigUintStatic_default(N),
                       outside |-> Len(memory) - N * U32Bytes]}
  IN  IF Len(bytes) > len * U32Bytes
      THEN {[ret |-> "Err", self |-> BigUintStatic_default(N), outside |-> 0]}
      ELSE built(from_bytes_be_memory(N, bytes))

(***************************************************************************)
(* The decoders (decoder.rs).  Option<u32> is None or a digit.             *)
(***************************************************************************)

None == -1

INVALID_INDEX == 255

\* U8Decoder::new: lookup[byte] is the index of the byte's last occurrence in
\* the alphabet, as u8, and INVALID_INDEX for a byte that is not in it.
U8Decoder_new(alphabet) ==
  [kind     |-> "u8",
   alphabet |-> alphabet,
   lookup   |-> [b \in Byte |->
                   LET at == {i \in 1..Len(alphabet) : alphabet[i] = b}
                   IN  IF at = {} THEN INVALID_INDEX
                       ELSE ((CHOOSE i \in at : \A j \in at : j <= i) - 1) % 256]]

\* CharDecoder(&[char])
CharDecoder(alphabet) == [kind |-> "char", alphabet |-> alphabet]

\* Decoder::iter: the bytes of the input for U8Decoder, its chars for
\* CharDecoder.
iter(dec, s) == IF dec.kind = "u8" THEN as_bytes(s) ELSE chars(s)

\* U8Decoder::carry
U8Decoder_carry(dec, c) ==
  IF dec.lookup[c] = INVALID_INDEX THEN None ELSE dec.lookup[c]

\* CharDecoder::carry: the index of the first occurrence.
CharDecoder_carry(dec, c) ==
  LET at == {i \in 1..Len(dec.alphabet) : dec.alphabet[i] = c}
  IN  IF at = {} THEN None
      ELSE (CHOOSE i \in at : \A j \in at : i <= j) - 1

\* Decoder::carry
carry(dec, c) ==
  IF dec.kind = "u8" THEN U8Decoder_carry(dec, c) ELSE CharDecoder_carry(dec, c)

\* `alpha.len() as u32`
base_of(dec) == ToWide(Len(dec.alphabet))

\* Self::iter(input).take_while(|byte| *byte == leader).count()
RECURSIVE take_while_count(_, _)
take_while_count(syms, leader) ==
  IF syms = <<>> \/ Head(syms) # leader THEN 0
  ELSE 1 + take_while_count(Tail(syms), leader)

leaders_of(dec, input) == take_while_count(iter(dec, input), dec.alphabet[1])

\* The digits the decoding loop folds, in order, up to and including the
\* first None.
RECURSIVE digits_of(_, _)
digits_of(dec, syms) ==
  IF syms = <<>> THEN <<>>
  ELSE LET d == carry(dec, Head(syms))
       IN  IF d = None THEN <<None>> ELSE <<d>> \o digits_of(dec, Tail(syms))

\* The loop of decode_mut over the digits from position i: the big integer
\* and Ok, or Err at the first None or the first failing mul_add.
RECURSIVE decode_mut_loop(_, _, _, _)
decode_mut_loop(big, base, digits, i) ==
  IF i > Len(digits) THEN [ret |-> "Ok", big |-> big]
  ELSE IF digits[i] = None THEN [ret |-> "Err", big |-> big]
  ELSE LET step(r) ==
             IF r.ret = "Ok" THEN decode_mut_loop(r.self, base, digits, i + 1)
             ELSE [ret |-> "Err", big |-> r.self]
       IN  step(mul_add(big, base, ToWide(digits[i])))

\* The end of decode_mut: the leading zero symbols are counted and the buffer
\* rotated left by output.len() - leaders; the subtraction (with overflow
\* checks) or rotate_left's assertion (without) panics when leaders exceeds
\* output.len().
decode_mut_rotate(output, leaders) ==
  IF leaders > Len(output) THEN [ret |-> "panic", output |-> output]
  ELSE [ret |-> "Ok", output |-> rotate_left(output, Len(output) - leaders)]

\* Decoder::decode_mut::<BACKING>(&self, output, input): the result and the
\* caller's buffer afterwards.
Decoder_decode_mut(dec, BACKING, output, input) ==
  IF input = <<>> THEN [ret |-> "Ok", output |-> output]
  ELSE LET written(w) ==
             IF w.ret # "Ok" THEN [ret |-> "Err", output |-> w.output]
             ELSE decode_mut_rotate(w.output, leaders_of(dec, input))
           folded(l) ==
             IF l.ret # "Ok" THEN [ret |-> "Err", output |-> output]
             ELSE written(into_bytes_be(l.big, output))
       IN  folded(decode_mut_loop(BigUintStatic_default(BACKING), base_of(dec),
                                  digits_of(dec, iter(dec, input)), 1))

(***************************************************************************)
(* The growable big integer (module bigint) and the encoder (module        *)
(* encoder) are declared in lib.rs and used by decoder.rs and alphabet.rs; *)
(* they are modelled from the specification's sections 4.1 and 4.3.  A     *)
(* BigUint is its chunk sequence, most-significant chunk first.            *)
(***************************************************************************)

\* BigUint::with_capacity: the value zero.
BigUint_with_capacity(capacity) == [chunks |-> << <<>> >>]

\* BigUint::mul_add: the sweep of mul_add; a carry left after the
\* most-significant chunk grows the integer by one chunk.
BigUint_mul_add(big, multiplicator, addition) ==
  LET swept(s) == [chunks |-> IF s.carry = <<>> THEN s.chunks
                              ELSE <<as_u32(s.carry)>> \o s.chunks]
  IN  swept(mul_add_sweep(big.chunks, multiplicator, addition))

\* BigUint::div_mod: the big integer afterwards and the remainder.
BigUint_div_mod(big, divider) ==
  LET divided(r) == [self |-> [chunks |-> r.chunks], rem |-> as_u32(r.carry)]
  IN  divided(div_mod_loop(big.chunks, divider, 1, <<>>))

\* BigUint::is_zero
BigUint_is_zero(big) == \A i \in 1..Len(big.chunks) : big.chunks[i] = <<>>

\* BigUint::into_bytes_be: the minimal-length big-endian bytes of the value.
BigUint_into_bytes_be(big) ==
  LET copy(mem, skip) == SubSeq(mem, skip + 1, Len(mem))
  IN  copy(chunk_memory(big.chunks), skip_from(big.chunks, 1))

\* Four big-endian bytes as a u32.
from_be_bytes(b) == Trim(Reverse(b))

RECURSIVE pack_chunks(_)
pack_chunks(b) ==
  IF b = <<>> THEN <<>>
  ELSE <<from_be_bytes(SubSeq(b, 1, U32Bytes))>>
         \o pack_chunks(SubSeq(b, U32Bytes + 1, Len(b)))

\* BigUint::from_bytes_be: the bytes packed into chunks, the most-significant
\* chunk zero-padded.
BigUint_from_bytes_be(bytes) ==
  [chunks |-> pack_chunks(Zeros((U32Bytes - (Len(bytes) % U32Bytes)) % U32Bytes)
                          \o bytes)]

\* The digits of the encoder's division loop, least-significant first: div_mod
\* by the base until the integer is zero.
RECURSIVE encode_digits(_, _)
encode_digits(big, base) ==
  IF BigUint_is_zero(big) THEN <<>>
  ELSE LET divided(r) == <<ToInt(r.rem)>> \o encode_digits(r.self, base)
       IN  divided(BigUint_div_mod(big, base))

\* encoder::encode(alpha, input): the symbols of the encoded text in reverse
\* order (the callers reverse it): the digits of the value, least-significant
\* first, then one zero symbol for every leading zero byte of the input.
\* "panic" is the division by a base of zero, "diverges" the division loop
\* of a non-zero value by a base of one.
encoder_encode(alpha, input) ==
  LET symbols(ds) ==
        [ret |-> "Ok",
         out |-> [i \in 1..Len(ds) |-> alpha[ds[i] + 1]]
                   \o [i \in 1..take_while_count(input, 0) |-> alpha[1]]]
      convert(big) ==
        IF BigUint_is_zero(big) THEN symbols(<<>>)
        ELSE IF Len(alpha) = 0 THEN [ret |-> "panic", out |-> <<>>]
        ELSE IF Len(alpha) = 1 THEN [ret |-> "diverges", out |-> <<>>]
        ELSE symbols(encode_digits(big, ToWide(Len(alpha))))
  IN  convert(BigUint_from_bytes_be(input))

\* The digits of the division loop of encoder::encode_mut on a
\* BigUintStatic, least-significant first.
RECURSIVE encode_mut_digits(_, _)
encode_mut_digits(big, base) ==
  IF is_zero(big) THEN <<>>
  ELSE LET divided(r) == <<ToInt(r.rem)>> \o encode_mut_digits(r.self, base)
       IN  divided(div_mod(big, base))

\* encoder::encode_mut::<T, BACKING>(alpha, out, input): the outcomes.  The
\* input is imported with BigUintStatic::<BACKING>::from_bytes_be, whose
\* outcomes are the code's; the symbols are those of encoder::encode, written
\* from the start of `out` in the order produced (the callers reverse the
\* buffer).  Err is a failed import or an `out` shorter than the symbols,
\* which is then left as it was.
encoder_encode_mut(alpha, BACKING, out, input) ==
  LET symbols(ds) ==
        LET written(syms) ==
              IF Len(syms) > Len(out) THEN [ret |-> "Err", out |-> out]
              ELSE [ret |-> "Ok",
                    out |-> syms \o SubSeq(out, Len(syms) + 1, Len(out))]
        IN  written([i \in 1..Len(ds) |-> alpha[ds[i] + 1]]
                      \o [i \in 1..take_while_count(input, 0) |-> alpha[1]])
      convert(r) ==
        IF r.ret = "abort" THEN [ret |-> "abort", out |-> out]
        ELSE IF r.ret # "Ok" THEN [ret |-> "Err", out |-> out]
        ELSE IF is_zero(r.self) THEN symbols(<<>>)
        ELSE IF Len(alpha) = 0 THEN [ret |-> "panic", out |-> out]
        ELSE IF Len(alpha) = 1 THEN [ret |-> "diverges", out |-> out]
        ELSE symbols(encode_mut_digits(r.self, ToWide(Len(alpha))))
  IN  {convert(r) : r \in from_bytes_be(BACKING, input)}

\* The loop of decode over the digits from position i.  (The test of
\* next.chunks is always true: it makes TLC evaluate the integer at every
\* step instead of nesting one unevaluated step in the next.)
RECURSIVE decode_loop(_, _, _, _)
decode_loop(big, base, digits, i) ==
  IF i > Len(digits) THEN [ret |-> "Ok", big |-> big]
  ELSE IF digits[i] = None THEN [ret |-> "Err", big |-> big]
  ELSE LET step(next) ==
             IF Len(next.chunks) >= 0
             THEN decode_loop(next, base, digits, i + 1)
             ELSE [ret |-> "Ok", big |-> next]
       IN  step(BigUint_mul_add(big, base, ToWide(digits[i])))

\* decode without the loop that inserts one zero byte for every leader.
Decoder_decode_no_leaders(dec, input) ==
  IF input = <<>> THEN [ret |-> "Ok", bytes |-> <<>>]
  ELSE LET folded(l) ==
             IF l.ret # "Ok" THEN [ret |-> "Err", bytes |-> <<>>]
             ELSE [ret |-> "Ok", bytes |-> BigUint_into_bytes_be(l.big)]
       IN  folded(decode_loop(BigUint_with_capacity(4), base_of(dec),
                              digits_of(dec, iter(dec, input)), 1))

\* Decoder::decode(&self, input) -> Result<Vec<u8>, DecodeError>
Decoder_decode(dec, input) ==
  IF input = <<>> THEN [ret |-> "Ok", bytes |-> <<>>]
  ELSE LET folded(l) ==
             IF l.ret # "Ok" THEN [ret |-> "Err", bytes |-> <<>>]
             ELSE [ret   |-> "Ok",
                   bytes |-> Zeros(leaders_of(dec, input))
                               \o BigUint_into_bytes_be(l.big)]
       IN  folded(decode_loop(BigUint_with_capacity(4), base_of(dec),
                              digits_of(dec, iter(dec, input)), 1))

(***************************************************************************)
(* The Alphabet implementations (alphabet.rs).  An alphabet is             *)
(* [kind |-> "str", syms |-> the scalar values of the &str] or             *)
(* [kind |-> "u8", syms |-> the bytes of the &[u8]].                       *)
(***************************************************************************)

\* The decoder <&[u8]>::decode and <&str>::decode build.
decoder_for_decode(alphabet) ==
  IF alphabet.kind = "u8" THEN U8Decoder_new(alphabet.syms)
  ELSE IF is_ascii(alphabet.syms) THEN U8Decoder_new(as_bytes(alphabet.syms))
  ELSE CharDecoder(chars(alphabet.syms))

\* The decoder <&[u8]>::decode_mut and <&str>::decode_mut build.
decoder_for_decode_mut(alphabet) ==
  IF alphabet.kind = "u8" THEN U8Decoder_new(alphabet.syms)
  ELSE U8Decoder_new(as_bytes(alphabet.syms))

\* Alphabet::decode / base_x::decode
decode(alphabet, input) == Decoder_decode(decoder_for_decode(alphabet), input)

\* Alphabet::decode_mut / base_x::decode_mut::<A, BACKING>
decode_mut(alphabet, BACKING, output, input) ==
  Decoder_decode_mut(decoder_for_decode_mut(alphabet), BACKING, output, input)

\* encode without `out.reverse()` / `.rev()`: the symbols in the order the
\* encoder produced them.
encode_unreversed(alphabet, input) ==
  IF alphabet.kind = "u8" /\ ~is_ascii(alphabet.syms)
  THEN [ret |-> "panic", text |-> <<>>]
  ELSE IF alphabet.kind = "u8" \/ is_ascii(alphabet.syms)
  THEN LET string(e) == [ret |-> e.ret, text |-> from_utf8_unchecked(e.out)]
       IN  string(encoder_encode(IF alphabet.kind = "u8" THEN alphabet.syms
                                 ELSE as_bytes(alphabet.syms), input))
  ELSE LET string(e) == [ret |-> e.ret, text |-> e.out]
       IN  string(encoder_encode(chars(alphabet.syms), input))

\* Alphabet::encode / base_x::encode: the result and the String.
encode(alphabet, input) ==
  IF alphabet.kind = "u8" /\ ~is_ascii(alphabet.syms)
  THEN [ret |-> "panic", text |-> <<>>]
  ELSE IF alphabet.kind = "u8" \/ is_ascii(alphabet.syms)
  THEN LET string(e) == [ret |-> e.ret, text |-> from_utf8_unchecked(Reverse(e.out))]
       IN  string(encoder_encode(IF alphabet.kind = "u8" THEN alphabet.syms
                                 ELSE as_bytes(alphabet.syms), input))
  ELSE LET string(e) == [ret |-> e.ret, text |-> Reverse(e.out)]
       IN  string(encoder_encode(chars(alphabet.syms), input))

\* Alphabet::encode_mut / base_x::encode_mut::<A, BACKING>: the outcomes,
\* each the result and the caller's buffer.  An alphabet that is not ASCII
\* panics before the encoder is called; on Ok the whole buffer is reversed.
encode_mut(alphabet, BACKING, output, input) ==
  IF ~is_ascii(alphabet.syms)
  THEN {[ret |-> "panic", output |-> output]}
  ELSE LET matched(e) ==
             IF e.ret = "Ok" THEN [ret |-> "Ok", output |-> Reverse(e.out)]
             ELSE [ret |-> e.ret, output |-> e.out]
       IN  {matched(e) :
              e \in encoder_encode_mut(IF alphabet.kind = "u8" THEN alphabet.syms
                                       ELSE as_bytes(alphabet.syms),
                                       BACKING, output, input)}

(***************************************************************************)
(* The inputs the model draws from.                                        *)
(***************************************************************************)

\* The longest text enumerated symbol by symbol, the longest run of the
\* last symbol, the most leading zero symbols before a run, the longest
\* output buffer, the largest BACKING, the longest byte input, the most
\* chunks of a BigUintStatic, the most operations applied to one and the
\* longest byte sequence imported into one.
MaxTextLen == 3
MaxRun == 11
MaxLeaders == 2
MaxOutLen == 6
MaxBacking == 2
MaxDataLen == 4
MaxChunks == 2
MaxSteps == 1
MaxImportLen == 9

Range(s) == {s[i] : i \in 1..Len(s)}

SeqsUpTo(S, n) == UNION {[1..k -> S] : k \in 0..n}

\* "01", the base-58 alphabet of gen_works, "😐😀" of is_unicode_sound and
\* the one-symbol alphabet "0", as &str.
Binary == <<48, 49>>
Base58 ==
  <<49, 50, 51, 52, 53, 54, 55, 56, 57, 65, 66, 67, 68, 69, 70, 71, 72, 74,
    75, 76, 77, 78, 80, 81, 82, 83, 84, 85, 86, 87, 88, 89, 90, 97, 98, 99,
    100, 101, 102, 103, 104, 105, 106, 107, 109, 110, 111, 112, 113, 114,
    115, 116, 117, 118, 119, 120, 121, 122>>
Faces == <<128528, 128512>>
Unary == <<48>>

StrAlphabets == {[kind |-> "str", syms |-> a] : a \in {Binary, Base58, Faces, Unary}}

\* "01" as &[u8], and the two bytes of "é" as a &[u8] alphabet.
U8Alphabets == {[kind |-> "u8", syms |-> a] : a \in {Binary, <<195, 169>>}}

Alphabets == StrAlphabets \cup U8Alphabets

\* The scalar values texts are drawn from: the first and the last symbol of
\* the alphabet and one that is not in it ('!', or U+1F418, whose UTF-8 bytes
\* all occur in the bytes of "😐😀").
TextChars(a) ==
  LET cs == IF a.kind = "u8" THEN from_utf8_unchecked(a.syms) ELSE a.syms
  IN  {cs[1], cs[Len(cs)]} \cup (IF is_ascii(cs) THEN {33} ELSE {128024})

Texts(a) ==
  LET cs == IF a.kind = "u8" THEN from_utf8_unchecked(a.syms) ELSE a.syms
  IN  SeqsUpTo(TextChars(a), MaxTextLen)
      \cup {[i \in 1..(k + n) |-> IF i <= k THEN cs[1] ELSE cs[Len(cs)]] :
              k \in 0..MaxLeaders, n \in (MaxTextLen + 1)..MaxRun}

\* The caller's output buffers: zero-filled, or filled with distinct marks.
OutputBuffers ==
  {Zeros(n) : n \in 0..MaxOutLen} \cup {[i \in 1..n |-> 170 + i] : n \in 0..MaxOutLen}

\* The caller's output buffers of encode_mut: filled with distinct marks.
EncodeBuffers == {[i \in 1..n |-> 170 + i] : n \in 0..MaxOutLen}

\* The byte inputs of encode.
Datas == SeqsUpTo({0, 1, 255}, MaxDataLen)

\* u32 values: among 0, 1, 57, 58, 2^16 + 1, 2^31 and 2^32 - 1.
Multipliers == {<<>>, <<1>>, <<58>>, <<0, 0, 0, 128>>, <<255, 255, 255, 255>>}
Additions == {<<>>, <<57>>, <<255, 255, 255, 255>>}
Dividers == {<<>>, <<1>>, <<58>>, <<1, 0, 1>>, <<255, 255, 255, 255>>}
ChunkValues == {<<>>, <<1>>, <<0, 0, 0, 128>>, <<255, 255, 255, 255>>}

\* The BigUintStatic values from_bytes_be and default build: any chunks, with
\* len 0.
BigInits ==
  UNION {{[chunks |-> c, len |-> 0] : c \in [1..n -> ChunkValues]} : n \in 0..MaxChunks}

\* The byte sequences from_bytes_be imports: a first byte of 0, 1 or 0xDE,
\* followed by distinct marks or by zero bytes.
ImportDatas ==
  {[i \in 1..n |-> IF i = 1 THEN first ELSE rest * (16 + i)] :
     n \in 0..MaxImportLen, first \in {0, 1, 222}, rest \in {0, 1}}

\* The buffers into_bytes_be exports to after an import of `bytes`:
\* zero-filled or filled with marks, of len(bytes) - 1 to len(bytes) + 1 bytes.
ExportBuffers(b) ==
  {[i \in 1..n |-> fill * (170 + i)] :
     n \in {Len(b) - 1, Len(b), Len(b) + 1} \cap Nat, fill \in {0, 1}}

(***************************************************************************)
(* The state: one caller with an alphabet, a text and a byte input, the    *)
(* results of its calls, and one BigUintStatic the operations of           *)
(* bigintstatic.rs act on.                                                 *)
(***************************************************************************)
VARIABLES
  alphabet,  \* the alphabet of the caller
  input,     \* the text the caller decodes
  bytes,     \* the bytes the caller encodes or imports
  decoded,   \* the result of decode: [ret, bytes]
  encoded,   \* the result of encode: [ret, text]
  mut,       \* the decode_mut or into_bytes_be call, BACKING being N:
             \* [ret, BACKING, before, output]
  big,       \* a BigUintStatic: [chunks, len]
  call       \* the last operation on big: [op, x, y, before, ret, rem, ovf],
             \* [op, ret, outside] for from_bytes_be, and the encode_mut
             \* call: [op, BACKING, before, ret, output]

vars == <<alphabet, input, bytes, decoded, encoded, mut, big, call>>

NoDecoded == [ret |-> "none", bytes |-> <<>>]
NoEncoded == [ret |-> "none", text |-> <<>>]
NoMut == [ret |-> "none", BACKING |-> 0, before |-> <<>>, output |-> <<>>]
NoCall ==
  [op |-> "none", x |-> <<>>, y |-> <<>>, before |-> <<>>, ret |-> "none",
   rem |-> <<>>, ovf |-> FALSE]

\* The caller holds a text.
Init ==
  /\ alphabet \in Alphabets
  /\ input \in Texts(alphabet)
  /\ bytes = <<>>
  /\ decoded = NoDecoded
  /\ encoded = NoEncoded
  /\ mut = NoMut
  /\ big = BigUintStatic_default(0)
  /\ call = NoCall

\* base_x::decode(alphabet, input)
Decode ==
  /\ decoded.ret = "none" /\ encoded.ret = "none" /\ mut.ret = "none"
  /\ decoded' = decode(alphabet, input)
  /\ UNCHANGED <<alphabet, input, bytes, encoded, mut, big, call>>

\* base_x::encode(alphabet, &decoded)
Encode ==
  /\ decoded.ret = "Ok" /\ encoded.ret = "none"
  /\ encoded' = encode(alphabet, decoded.bytes)
  /\ UNCHANGED <<alphabet, input, bytes, decoded, mut, big, call>>

\* base_x::decode_mut::<_, BACKING>(alphabet, &mut output, input)
DecodeMut ==
  /\ decoded.ret = "none" /\ mut.ret = "none"
  /\ \E BACKING \in 0..MaxBacking, output \in OutputBuffers :
       LET returned(r) ==
             mut' = [ret |-> r.ret, BACKING |-> BACKING, before |-> output,
                     output |-> r.output]
       IN  returned(decode_mut(alphabet, BACKING, output, input))
  /\ UNCHANGED <<alphabet, input, bytes, decoded, encoded, big, call>>

\* base_x::encode_mut::<_, BACKING>(alphabet, &mut output, &decoded)
EncodeMut ==
  /\ decoded.ret = "Ok" /\ encoded.ret = "none" /\ call.op = "none"
  /\ \E BACKING \in 0..MaxBacking, output \in EncodeBuffers :
       \E r \in encode_mut(alphabet, BACKING, output, decoded.bytes) :
         call' = [op |-> "encode_mut", BACKING |-> BACKING, before |-> output,
                  ret |-> r.ret, output |-> r.output]
  /\ UNCHANGED <<alphabet, input, bytes, decoded, encoded, mut, big>>

Next == Decode \/ Encode \/ DecodeMut \/ EncodeMut

Spec == Init /\ [][Next]_vars

\* The caller holds bytes.
InitBytes ==
  /\ alphabet \in Alphabets
  /\ input = <<>>
  /\ bytes \in Datas
  /\ decoded = NoDecoded
  /\ encoded = NoEncoded
  /\ mut = NoMut
  /\ big = BigUintStatic_default(0)
  /\ call = NoCall

\* base_x::encode(alphabet, bytes)
EncodeBytes ==
  /\ encoded.ret = "none"
  /\ encoded' = encode(alphabet, bytes)
  /\ UNCHANGED <<alphabet, input, bytes, decoded, mut, big, call>>

\* base_x::decode(alphabet, &encoded)
DecodeEncoded ==
  /\ encoded.ret = "Ok" /\ decoded.ret = "none"
  /\ decoded' = decode(alphabet, encoded.text)
  /\ UNCHANGED <<alphabet, input, bytes, encoded, mut, big, call>>

NextBytes == EncodeBytes \/ DecodeEncoded

SpecBytes == InitBytes /\ [][NextBytes]_vars

\* A BigUintStatic as from_bytes_be or default built it.
InitBig ==
  /\ alphabet = [kind |-> "str", syms |-> Binary]
  /\ input = <<>>
  /\ bytes = <<>>
  /\ decoded = NoDecoded
  /\ encoded = NoEncoded
  /\ mut = NoMut
  /\ big \in BigInits
  /\ call = NoCall

\* The operations on big so far.
Steps == IF call.op = "none" THEN 0 ELSE 1 + Len(call.before.history)

History == IF call.op = "none" THEN <<>> ELSE Append(call.before.history, call.op)

\* big.mul_add(multiplicator, addition)
MulAdd ==
  /\ Steps < MaxSteps /\ call.ret # "panic"
  /\ \E multiplicator \in Multipliers, addition \in Additions :
       LET returned(r) ==
             /\ big' = r.self
             /\ call' = [op |-> "mul_add", x |-> multiplicator, y |-> addition,
                         before |-> [big |-> big, history |-> History],
                         ret |-> r.ret, rem |-> <<>>, ovf |-> r.ovf]
       IN  returned(mul_add(big, multiplicator, addition))
  /\ UNCHANGED <<alphabet, input, bytes, decoded, encoded, mut>>

\* big.div_mod(divider)
DivMod ==
  /\ Steps < MaxSteps /\ call.ret # "panic"
  /\ \E divider \in Dividers :
       LET returned(r) ==
             /\ big' = r.self
             /\ call' = [op |-> "div_mod", x |-> divider, y |-> <<>>,
                         before |-> [big |-> big, history |-> History],
                         ret |-> r.ret, rem |-> r.rem, ovf |-> r.ovf]
       IN  returned(div_mod(big, divider))
  /\ UNCHANGED <<alphabet, input, bytes, decoded, encoded, mut>>

NextBig == MulAdd \/ DivMod

SpecBig == InitBig /\ [][NextBig]_vars

\* A caller about to import bytes into a BigUintStatic<N>; N is the number
\* of chunks of big.
InitImport ==
  /\ alphabet = [kind |-> "str", syms |-> Binary]
  /\ input = <<>>
  /\ bytes \in ImportDatas
  /\ decoded = NoDecoded
  /\ encoded = NoEncoded
  /\ mut = NoMut
  /\ big \in {BigUintStatic_default(N) : N \in 0..MaxChunks}
  /\ call = NoCall

\* big = BigUintStatic::<N>::from_bytes_be(bytes)
FromBytesBe ==
  /\ call.op = "none"
  /\ \E r \in from_bytes_be(Len(big.chunks), bytes) :
       /\ big' = r.self
       /\ call' = [op |-> "from_bytes_be", ret |-> r.ret, outside |-> r.outside]
  /\ UNCHANGED <<alphabet, input, bytes, decoded, encoded, mut>>

\* big.into_bytes_be(&mut output) on the imported integer
IntoBytesBe ==
  /\ call.op = "from_bytes_be" /\ call.ret = "Ok" /\ mut.ret = "none"
  /\ \E output \in ExportBuffers(bytes) :
       LET returned(r) ==
             mut' = [ret |-> r.ret, BACKING |-> Len(big.chunks),
                     before |-> output, output |-> r.output]
       IN  returned(into_bytes_be(big, output))
  /\ UNCHANGED <<alphabet, input, bytes, decoded, encoded, big, call>>

NextImport == FromBytesBe \/ IntoBytesBe

SpecImport == InitImport /\ [][NextImport]_vars

(***************************************************************************)
(* The properties.  Values are compared as integers: ChunksValue of a      *)
(* chunk array, and the Horner value of a text.                            *)
(***************************************************************************)

\* Whether the value v is below 2^(32*N).
Fits(v, N) == Len(v) <= U32Bytes * N

\* An alphabet of unique symbols.
Unique(a) == \A i, j \in 1..Len(a.syms) : a.syms[i] = a.syms[j] => i = j

\* The encoder takes the alphabet: every &str, and a &[u8] of ASCII bytes.
Encodable(a) == a.kind = "u8" => is_ascii(a.syms)

\* The symbols of a text in the properties: the units of the alphabet as the
\* caller passes it, bytes for a &[u8] alphabet and Unicode scalar values
\* for a &str alphabet.  This is the reading of "symbol" the properties are
\* stated in, not what a decoder iterates: decode and decode_mut iterate
\* iter(d, input) of the decoder d they build, which for decode_mut of a &str
\* alphabet (and for decode of an ASCII one) is the bytes of the text.
SymbolsOf(a, t) == IF a.kind = "u8" THEN as_bytes(t) ELSE chars(t)

\* A text made only of the alphabet's symbols.
ValidText(a, t) ==
  \A i \in 1..Len(SymbolsOf(a, t)) : SymbolsOf(a, t)[i] \in Range(a.syms)

\* The digit a symbol of the alphabet stands for.
Digit(a, c) == (CHOOSE i \in 1..Len(a.syms) : a.syms[i] = c) - 1

\* value = value * base + digit over the symbols: the value v of the symbols
\* before the last, times the base, plus the last digit.
RECURSIVE Horner(_, _)
Horner(a, symbols) ==
  IF symbols = <<>> THEN <<>>
  ELSE CHOOSE value \in
         {WAdd(WMul(v, ToWide(Len(a.syms))),
               ToWide(Digit(a, symbols[Len(symbols)]))) :
            v \in {Horner(a, SubSeq(symbols, 1, Len(symbols) - 1))}} : TRUE

\* The Horner value of a valid text.
HornerValue(a, t) == Horner(a, SymbolsOf(a, t))

\* The number of leading zero symbols of a text.
LeadingZeros(a, t) == take_while_count(SymbolsOf(a, t), a.syms[1])

\* The minimal big-endian bytes of a value (none for zero).
BigEndian(v) == Reverse(v)

\* C1, as stated: for every alphabet of unique symbols with base >= 2 and
\* every byte sequence, encode returns a text and decode of that text
\* returns Ok with exactly the bytes.
ByteRoundTripAnyAlphabet ==
  (Unique(alphabet) /\ Len(alphabet.syms) >= 2) =>
    /\ encoded.ret # "none" => encoded.ret = "Ok"
    /\ decoded.ret # "none" => decoded = [ret |-> "Ok", bytes |-> bytes]

\* C1, amended: for every alphabet of unique symbols with base >= 2 that is
\* a &str, or a &[u8] of ASCII bytes, and every byte sequence, encode
\* returns a text and decode of that text returns Ok with exactly the bytes.
ByteRoundTrip ==
  (Unique(alphabet) /\ Len(alphabet.syms) >= 2 /\ Encodable(alphabet)) =>
    /\ encoded.ret # "none" => encoded.ret = "Ok"
    /\ decoded.ret # "none" => decoded = [ret |-> "Ok", bytes |-> bytes]

\* Bytes with a leading zero byte and a non-zero last byte went through
\* encode and decode with a non-ASCII alphabet.
ByteRoundTripWitness ==
  /\ alphabet = [kind |-> "str", syms |-> Faces]
  /\ Len(bytes) >= 3 /\ bytes[1] = 0 /\ bytes[Len(bytes)] # 0
  /\ encoded.ret = "Ok"
  /\ decoded.ret = "Ok"

\* C2, as stated: for every alphabet of unique symbols, &str or &[u8], and
\* every text made only of its symbols, decode returns Ok and encode of the
\* decoded bytes returns the text.
TextRoundTripAnyAlphabet ==
  (Unique(alphabet) /\ ValidText(alphabet, input)) =>
    /\ decoded.ret # "none" => decoded.ret = "Ok"
    /\ encoded.ret # "none" => encoded = [ret |-> "Ok", text |-> input]

\* C2, amended: for every alphabet of unique symbols that is a &str, or a
\* &[u8] of ASCII bytes, and every text made only of its symbols, decode
\* returns Ok and encode of the decoded bytes returns the text.
TextRoundTrip ==
  (Unique(alphabet) /\ Encodable(alphabet) /\ ValidText(alphabet, input)) =>
    /\ decoded.ret # "none" => decoded.ret = "Ok"
    /\ encoded.ret # "none" => encoded = [ret |-> "Ok", text |-> input]

\* A base-58 text with a leading zero symbol and a non-zero value went
\* through decode and encode.
TextRoundTripWitness ==
  /\ alphabet = [kind |-> "str", syms |-> Base58]
  /\ Len(input) >= 3 /\ input[1] = Base58[1] /\ input[Len(input)] # Base58[1]
  /\ decoded.ret = "Ok"
  /\ encoded.ret = "Ok"

\* C3: for every text of valid symbols whose Horner value is at least
\* 2^(32*BACKING), decode_mut::<BACKING> returns Err.
CapacityExhaustionReported ==
  (/\ mut.ret # "none"
   /\ Unique(alphabet)
   /\ ValidText(alphabet, input)
   /\ ~Fits(HornerValue(alphabet, input), mut.BACKING)) =>
    mut.ret = "Err"

\* C4: for every alphabet of unique symbols (at most 255 of them for a
\* &[u8]) and every non-empty text with a symbol that is not in the
\* alphabet, decode returns Err and decode_mut returns Err, whatever the
\* output buffer and BACKING.
InvalidSymbolIsError ==
  (/\ Unique(alphabet)
   /\ alphabet.kind = "u8" => Len(alphabet.syms) <= 255
   /\ input # <<>>
   /\ ~ValidText(alphabet, input)) =>
    /\ decoded.ret # "none" => decoded.ret = "Err"
    /\ mut.ret # "none" => mut.ret = "Err"

\* C5: for every text of valid symbols with k leading zero symbols whose
\* value has m minimal big-endian bytes, decode_mut with an output buffer
\* shorter than k + m returns Err: not Ok, and no panic.
UndersizedOutputIsError ==
  (/\ mut.ret # "none"
   /\ Unique(alphabet)
   /\ ValidText(alphabet, input)
   /\ Len(mut.before) < LeadingZeros(alphabet, input)
                          + Len(BigEndian(HornerValue(alphabet, input)))) =>
    mut.ret = "Err"

\* C6: for every text of valid symbols with k leading zero symbols and a
\* value v below 2^(32*BACKING) with m minimal big-endian bytes, decode_mut
\* with a zero-filled output buffer of length k + m returns Ok and leaves k
\* zero bytes followed by the m bytes of v in it.
LeadingZerosRestored ==
  (/\ mut.ret # "none"
   /\ Unique(alphabet)
   /\ ValidText(alphabet, input)
   /\ Fits(HornerValue(alphabet, input), mut.BACKING)
   /\ mut.before = Zeros(LeadingZeros(alphabet, input)
                           + Len(BigEndian(HornerValue(alphabet, input))))) =>
    /\ mut.ret = "Ok"
    /\ mut.output = Zeros(LeadingZeros(alphabet, input))
                      \o BigEndian(HornerValue(alphabet, input))

\* C7: when decode_mut returns Err, the output buffer is as it was before
\* the call.
NoPartialOutput == mut.ret = "Err" => mut.output = mut.before

\* decode_mut returned Err for a valid binary text whose value fits BACKING:
\* the buffer, filled with marks, was too short for the value.
NoPartialOutputWitness ==
  /\ mut.ret = "Err"
  /\ alphabet = [kind |-> "str", syms |-> Binary]
  /\ ValidText(alphabet, input)
  /\ Fits(HornerValue(alphabet, input), mut.BACKING)
  /\ Len(mut.before) >= 1 /\ mut.before[1] # 0

\* C8: for every &str alphabet and every text, decode_mut folds in the same
\* radix and the same digit sequence as decode: the byte lookup for an
\* all-ASCII alphabet, whole characters and the number of scalar values for
\* a non-ASCII one.
SameStrategy ==
  (mut.ret # "none" /\ alphabet.kind = "str" /\ input # <<>>) =>
    /\ base_of(decoder_for_decode_mut(alphabet))
         = base_of(decoder_for_decode(alphabet))
    /\ digits_of(decoder_for_decode_mut(alphabet),
                 iter(decoder_for_decode_mut(alphabet), input))
         = digits_of(decoder_for_decode(alphabet),
                     iter(decoder_for_decode(alphabet), input))
    /\ decoder_for_decode(alphabet).kind
         = (IF is_ascii(alphabet.syms) THEN "u8" ELSE "char")

\* The value the last mul_add had to compute: v * multiplicator + addition.
MulAddExpected ==
  WAdd(WMul(ChunksValue(call.before.big.chunks), call.x), call.y)

\* The last operation is a mul_add whose exact result fits the N chunks.
MulAddFits ==
  /\ call.op = "mul_add"
  /\ Fits(MulAddExpected, Len(call.before.big.chunks))

\* C9: a mul_add(m, a) on a value v with v*m + a < 2^(32*N) returns Ok and
\* leaves the chunks representing exactly v*m + a, and no u64 intermediate
\* of the sweep overflows.
MulAddExact ==
  MulAddFits =>
    /\ call.ret = "Ok"
    /\ ChunksValue(big.chunks) = MulAddExpected
    /\ ~call.ovf

\* A mul_add that fits, with a non-zero addition, whose carry out of the
\* least-significant chunk filled a most-significant chunk that was zero.
MulAddExactWitness ==
  /\ MulAddFits
  /\ Len(big.chunks) = 2
  /\ call.y # <<>>
  /\ call.before.big.chunks[1] = <<>>
  /\ big.chunks[1] # <<>>

\* C10: a div_mod(d) with 1 <= d on a value v returns Ok with r < d and
\* leaves the chunks representing q, where q*d + r = v (so q = floor(v/d)
\* and r = v mod d), and the running remainder never overflows the u64.
DivModExact ==
  (call.op = "div_mod" /\ call.x # <<>>) =>
    /\ call.ret = "Ok"
    /\ WLess(call.rem, call.x)
    /\ WAdd(WMul(ChunksValue(big.chunks), call.x), call.rem)
         = ChunksValue(call.before.big.chunks)
    /\ ~call.ovf

\* A div_mod by 58 of a value with a non-zero most-significant chunk, whose
\* remainder ran through both chunks and is not zero.
DivModExactWitness ==
  /\ call.op = "div_mod"
  /\ call.x = <<58>>
  /\ Len(big.chunks) = 2
  /\ call.before.big.chunks[1] # <<>>
  /\ call.before.big.chunks[2] # <<>>
  /\ call.rem # <<>>

\* C11: for every N and every byte sequence b with a non-zero first byte
\* and len(b) <= 4*N, from_bytes_be(b) returns Ok with chunks whose value is
\* the big-endian integer of b, and into_bytes_be into a buffer of len(b)
\* bytes then returns Ok and writes exactly b.
ImportExportRoundTrip ==
  (/\ call.op = "from_bytes_be"
   /\ bytes # <<>>
   /\ bytes[1] # 0
   /\ Len(bytes) <= U32Bytes * Len(big.chunks)) =>
    /\ call.ret = "Ok"
    /\ ChunksValue(big.chunks) = Trim(Reverse(bytes))
    /\ (mut.ret # "none" /\ Len(mut.before) = Len(bytes)) =>
         (mut.ret = "Ok" /\ mut.output = bytes)

\* C12: for every N and every byte sequence b with len(b) > 4*N,
\* from_bytes_be(b) returns Err and writes nothing outside the N chunks.
ImportCapacityChecked ==
  (call.op = "from_bytes_be" /\ Len(bytes) > U32Bytes * Len(big.chunks)) =>
    (call.ret = "Err" /\ call.outside = 0)

====
